---- MODULE Spec2Model ----
(***************************************************************************)
(* serde_codegen/src/ser.rs: the #[derive(Serialize)] expander.            *)
(*                                                                         *)
(* Two levels are modelled.  The generator (expand_derive_serialize and    *)
(* the functions it calls) is a pure function from a type description to   *)
(* an emitted impl, a list of diagnostics and possibly an internal bug      *)
(* report (span_bug).  The emitted code (the quoted Rust inside            *)
(* quote_expr!/quote_item!/quote_arm!) is represented as records and is    *)
(* interpreted by the run-time actions Serialize / Visit / VisitorLen /    *)
(* SerializerReturn, with the Serializer as a nondeterministic environment. *)
(***************************************************************************)
EXTENDS Integers, Sequences, FiniteSets, TLC

VARIABLES annotatable, pc, pushed, diags, selfv, visitor, calls, eltret, last, ended, matched, opret, ret

vars == <<annotatable, pc, pushed, diags, selfv, visitor, calls, eltret, last, ended, matched, opret, ret>>

\* Bounds of the explored input families.
MaxFields == 3

MaxVariants == 2

MaxTyParams == 1

(***************************************************************************)
(* Names, values, field / variant / item descriptions                       *)
(***************************************************************************)
NoName == <<"", 0>>

NoIndex == 0 - 1

SkipKinds == {"none", "skip", "if_empty", "if_none"}

\* Results a Serializer operation can return: Ok(()) or one of two errors.
Errors == {"e1", "e2"}

Results == {"ok"} \cup Errors

\* A declared field.  ident is the declared name (positional fields carry
\* one too, so that ill-formed descriptions can be written down); named is
\* ast::NamedField vs ast::UnnamedField; skip / rename / bad_attr are what
\* the #[serde(...)] attributes on the field say.
Fld(i, named, skip, bad) ==
    [ident |-> <<"f", i>>, named |-> named, skip |-> skip,
     rename |-> (i % 2 = 0), bad_attr |-> bad]

FieldsOf(named, kinds) ==
    [i \in 1..Len(kinds) |-> Fld(i, named, kinds[i], FALSE)]

PlainKinds(n) == [i \in 1..n |-> "none"]

RegularFields(named, n) == {FieldsOf(named, ks) : ks \in [1..n -> SkipKinds]}

\* Positional fields: the generator never reads their attributes.
PositionalFields(n) == {FieldsOf(FALSE, ks) : ks \in [1..n -> {"none", "skip"}]}

\* One field of the wrong kind (named in a tuple, unnamed in a record).
MalformedFields(named, n) ==
    {[FieldsOf(named, PlainKinds(n)) EXCEPT ![j].named = ~named] : j \in 1..n}

\* One field whose attribute the attribute parser rejects.
BadAttrFields(named, n) ==
    {[FieldsOf(named, PlainKinds(n)) EXCEPT ![j].bad_attr = TRUE] : j \in 1..n}

UnitData == [kind |-> "Unit", fields |-> <<>>]

TupleData(fs) == [kind |-> "Tuple", fields |-> fs]

StructData(fs) == [kind |-> "Struct", fields |-> fs]

\* ast::VariantData of the structs explored: every attribute combination.
ProductDatas ==
    {UnitData}
    \cup {TupleData(fs) : fs \in UNION {PositionalFields(n) \cup MalformedFields(FALSE, n)
                                         \cup BadAttrFields(FALSE, n) : n \in 0..MaxFields}}
    \cup {StructData(fs) : fs \in UNION {RegularFields(TRUE, n) \cup MalformedFields(TRUE, n)
                                          \cup BadAttrFields(TRUE, n) : n \in 0..MaxFields}}

\* The variant bodies explored inside enums: a fixed catalogue of unit,
\* newtype, tuple and record variants, ill-formed and rejected ones included.
VariantKinds ==
    {[data |-> UnitData, bad_attr |-> b] : b \in BOOLEAN}
    \cup {[data |-> TupleData(FieldsOf(FALSE, ks)), bad_attr |-> FALSE]
          : ks \in {<<>>, <<"none">>, <<"none", "none">>}}
    \cup {[data |-> StructData(FieldsOf(TRUE, <<k, "none">>)), bad_attr |-> FALSE]
          : k \in SkipKinds}
    \cup {[data |-> TupleData(fs), bad_attr |-> FALSE]
          : fs \in MalformedFields(FALSE, 1) \cup {FieldsOf(TRUE, <<"none", "none">>)}}
    \cup {[data |-> StructData(fs), bad_attr |-> FALSE]
          : fs \in MalformedFields(TRUE, 1) \cup BadAttrFields(TRUE, 1)}

Variant(i, vk) ==
    [ident |-> <<"V", i>>, rename |-> (i % 2 = 1), bad_attr |-> vk.bad_attr, data |-> vk.data]

VariantLists ==
    UNION {{[i \in 1..k |-> Variant(i, vks[i])] : vks \in [1..k -> VariantKinds]}
           : k \in 1..MaxVariants}

\* ast::Generics: lifetimes, type parameters with their bounds, where-clause.
TyParam(i, bs) == [ident |-> <<"T", i>>, bounds |-> bs]

Generics(lts, tps, wc) == [lifetimes |-> lts, ty_params |-> tps, where_clause |-> wc]

DefaultGenerics ==
    Generics(<<"'l">>, <<TyParam(1, <<"Clone">>)>>, <<"T1: Debug">>)

GenericsFamily ==
    {Generics(lts, [i \in 1..n |-> TyParam(i, bss[i])], wc) :
        lts \in {<<>>, <<"'l">>, <<"'l", "'m">>},
        wc \in {<<>>, <<"T1: Debug">>},
        n \in 0..MaxTyParams,
        bss \in [1..MaxTyParams -> {<<>>, <<"Clone">>}]}

\* The annotated thing handed to the expander.
Item(node, g, bad, vd, vs) ==
    [ann |-> "Item", node |-> node, ident |-> <<"T", 0>>, rename |-> TRUE,
     bad_attr |-> bad, generics |-> g, data |-> vd, variants |-> vs]

StructItems == {Item("Struct", DefaultGenerics, FALSE, vd, <<>>) : vd \in ProductDatas}

EnumItems == {Item("Enum", DefaultGenerics, FALSE, UnitData, vs) : vs \in VariantLists}

\* Not a struct or enum; container attribute rejected.
OtherItems ==
    {[Item("Fn", DefaultGenerics, FALSE, UnitData, <<>>) EXCEPT !.ann = a]
        : a \in {"Item", "TraitItem", "ImplItem"}}
    \cup {Item("Struct", DefaultGenerics, TRUE, vd, <<>>)
          : vd \in {UnitData, StructData(FieldsOf(TRUE, PlainKinds(1)))}}
    \cup {Item("Enum", DefaultGenerics, TRUE, UnitData, vs)
          : vs \in {<<Variant(1, [data |-> UnitData, bad_attr |-> b])>> : b \in BOOLEAN}}

Items == StructItems \cup EnumItems \cup OtherItems

\* Items explored for the generic signatures: a tuple struct, a record and
\* an enum with a tuple and a record variant, under every generics clause.
GenItems ==
    UNION {{Item("Struct", g, FALSE, TupleData(FieldsOf(FALSE, <<"none", "none">>)), <<>>),
            Item("Struct", g, FALSE, StructData(FieldsOf(TRUE, <<"none">>)), <<>>),
            Item("Enum", g, FALSE, UnitData,
                 <<Variant(1, [data |-> TupleData(FieldsOf(FALSE, <<"none", "none">>)),
                               bad_attr |-> FALSE]),
                   Variant(2, [data |-> StructData(FieldsOf(TRUE, <<"none">>)),
                               bad_attr |-> FALSE])>>)}
           : g \in GenericsFamily}

(***************************************************************************)
(* Attribute model (module attr) and generics builder (aster): the typed   *)
(* accessors the generator consults.                                       *)
(***************************************************************************)
Ok(v) == [tag |-> "Ok", val |-> v, diag |-> <<>>]

Err(d) == [tag |-> "Err", val |-> <<>>, diag |-> d]

\* cx.span_bug: an internal compiler error carrying the span; it unwinds.
SpanBug(span, msg) ==
    [tag |-> "Bug", val |-> <<>>, diag |-> <<[kind |-> "bug", span |-> span, msg |-> msg]>>]

\* cx.span_err: an ordinary error diagnostic.
SpanErr(span, msg) == [kind |-> "error", span |-> span, msg |-> msg]

WireName(d) == IF d.rename THEN <<"renamed", d.ident[2]>> ELSE d.ident

\* attr::ContainerAttrs::from_item
ContainerAttrsFromItem(item) ==
    IF item.bad_attr
    THEN Err(<<SpanErr(item.ident, "container attribute")>>)
    ELSE Ok([name |-> WireName(item)])

\* attr::VariantAttrs::from_variant
VariantAttrsFromVariant(variant) ==
    IF variant.bad_attr
    THEN Err(<<SpanErr(variant.ident, "variant attribute")>>)
    ELSE Ok([name |-> WireName(variant)])

FieldAttrsOf(field) ==
    [name |-> WireName(field),
     skip_serializing_field |-> (field.skip = "skip"),
     skip_serializing_field_if_empty |-> (field.skip = "if_empty"),
     skip_serializing_field_if_none |-> (field.skip = "if_none")]

\* attr::get_struct_field_attrs: the attributes of every field, or the
\* first error.
GetStructFieldAttrs(fields) ==
    IF \E i \in 1..Len(fields) : fields[i].bad_attr
    THEN LET i == CHOOSE j \in 1..Len(fields) :
                     fields[j].bad_attr /\ \A k \in 1..(j - 1) : ~fields[k].bad_attr
         IN Err(<<SpanErr(fields[i].ident, "field attribute")>>)
    ELSE Ok([i \in 1..Len(fields) |-> FieldAttrsOf(fields[i])])

SerializeNameExpr(attrs) == attrs.name

SerializePath == "::serde::ser::Serialize"

VisitorLifetime == "'__a"

\* GenericsBuilder::add_ty_param_bound / add_lifetime_bound: push one bound
\* onto every type parameter.
AddTyParamBound(g, b) ==
    [g EXCEPT !.ty_params =
        [i \in 1..Len(g.ty_params) |->
            [g.ty_params[i] EXCEPT !.bounds = Append(g.ty_params[i].bounds, b)]]]

AddLifetimeBound(g, lt) == AddTyParamBound(g, lt)

\* GenericsBuilder::lifetime_name: declare one more lifetime parameter.
LifetimeName(g, lt) == [g EXCEPT !.lifetimes = Append(g.lifetimes, lt)]

\* GenericsBuilder::strip_bounds: parameters only.
StripBounds(g) ==
    [lifetimes |-> g.lifetimes,
     ty_params |-> [i \in 1..Len(g.ty_params) |-> [g.ty_params[i] EXCEPT !.bounds = <<>>]],
     where_clause |-> <<>>]

(***************************************************************************)
(* Emitted code, as data                                                   *)
(***************************************************************************)
\* self.value.<i>
SelfTupField(i) == [kind |-> "tup_field", idx |-> i, name |-> NoName]

\* &self.value.<name>
SelfField(name) == [kind |-> "field", idx |-> NoIndex, name |-> name]

NoVisitorDef == [kind |-> "none"]

NoValueExpr == [kind |-> "none", ids |-> <<>>]

SelfValueExpr == [kind |-> "self", ids |-> <<>>]

TupleValueExpr(ids) == [kind |-> "tuple", ids |-> ids]

\* serializer.<op>(type_name [, variant_index, variant_name] [, arg])
\* where arg is nothing, &self.0, a bound identifier, or
\* Visitor { value: <value>, state: <state>, .. }.
CallBody(op, type_name, variant_index, variant_name, arg, def, value) ==
    [op |-> op, type_name |-> type_name, variant_index |-> variant_index,
     variant_name |-> variant_name, arg |-> arg,
     visitor |-> def, value |-> value, state |-> 0]

LenTerm(kind, n, expr) == [kind |-> kind, n |-> n, expr |-> expr]

FieldName(i) == <<"__field", i>>

(***************************************************************************)
(* The generator                                                           *)
(***************************************************************************)
\* Mutant: the fresh lifetime is declared but bounds no type parameter.
VisitorImplGenericsUnbound(generics) == LifetimeName(generics, VisitorLifetime)

\* visitor_impl_generics, built in both visitor synthesizers.
VisitorImplGenerics(generics) ==
    LifetimeName(AddLifetimeBound(generics, VisitorLifetime), VisitorLifetime)

\* visitor_generics: the use-site signature.
VisitorGenerics(generics) == StripBounds(VisitorImplGenerics(generics))

\* Mutant: the arms are numbered from 1.
SeqVisitorArmsOneBased(fields) ==
    [j \in 1..fields |->
        [pat |-> j, stmt |-> "none", key |-> NoName, expr |-> SelfTupField(j - 1)]]

\* The match arms of the sequence visitor: one per index 0 .. fields-1.
SeqVisitorArms(fields) ==
    [j \in 1..fields |->
        [pat |-> j - 1, stmt |-> "none", key |-> NoName, expr |-> SelfTupField(j - 1)]]

SerializeTupleStructVisitor(structure_ty, variant_ty, fields, generics) ==
    [kind |-> "SeqVisitor",
     impl_generics |-> VisitorImplGenerics(generics),
     where_clause |-> VisitorImplGenerics(generics).where_clause,
     generics |-> VisitorGenerics(generics),
     structure_ty |-> structure_ty,
     variant_ty |-> variant_ty,
     arms |-> SeqVisitorArms(fields),
     len |-> <<LenTerm("lit", fields, NoValueExpr)>>]

\* field_attrs.iter().zip(value_exprs.iter())
ZipAttrs(field_attrs, value_exprs) ==
    LET n == IF Len(field_attrs) < Len(value_exprs) THEN Len(field_attrs) ELSE Len(value_exprs)
    IN [i \in 1..n |-> [field |-> field_attrs[i], value_expr |-> value_exprs[i]]]

\* The conditional-skip statement placed after the state increment.
SkipStmt(field) ==
    IF field.skip_serializing_field_if_empty THEN "is_empty"
    ELSE IF field.skip_serializing_field_if_none THEN "is_none"
    ELSE "none"

\* Mutant: the fields are enumerated before the skip fields are filtered out.
MapVisitorArmsEnumeratedFirst(field_attrs, value_exprs) ==
    LET z == ZipAttrs(field_attrs, value_exprs)
        kept == SelectSeq([i \in 1..Len(z) |-> i],
                          LAMBDA i : ~z[i].field.skip_serializing_field)
    IN [j \in 1..Len(kept) |->
           [pat |-> kept[j] - 1,
            stmt |-> SkipStmt(z[kept[j]].field),
            key |-> SerializeNameExpr(z[kept[j]].field),
            expr |-> z[kept[j]].value_expr]]

\* The match arms of the map visitor: skip fields are filtered out before
\* the remaining fields are enumerated.
MapVisitorArms(field_attrs, value_exprs) ==
    LET filtered == SelectSeq(ZipAttrs(field_attrs, value_exprs),
                              LAMBDA p : ~p.field.skip_serializing_field)
    IN [j \in 1..Len(filtered) |->
           [pat |-> j - 1,
            stmt |-> SkipStmt(filtered[j].field),
            key |-> SerializeNameExpr(filtered[j].field),
            expr |-> filtered[j].value_expr]]

\* Mutant: a skip field is counted.
LenSummandCountsSkip(field, value_expr) ==
    IF field.skip_serializing_field_if_empty THEN LenTerm("is_empty", 0, value_expr)
    ELSE IF field.skip_serializing_field_if_none THEN LenTerm("is_none", 0, value_expr)
    ELSE LenTerm("lit", 1, value_expr)

\* The summands of the len() expression, after the leading 0 of the fold.
LenSummand(field, value_expr) ==
    IF field.skip_serializing_field THEN LenTerm("lit", 0, value_expr)
    ELSE IF field.skip_serializing_field_if_empty THEN LenTerm("is_empty", 0, value_expr)
    ELSE IF field.skip_serializing_field_if_none THEN LenTerm("is_none", 0, value_expr)
    ELSE LenTerm("lit", 1, value_expr)

MapVisitorLen(field_attrs, value_exprs) ==
    LET z == ZipAttrs(field_attrs, value_exprs)
    IN <<LenTerm("lit", 0, NoValueExpr)>>
       \o [i \in 1..Len(z) |-> LenSummand(z[i].field, z[i].value_expr)]

SerializeStructVisitor(structure_ty, variant_ty, fields, generics, value_exprs) ==
    LET try(field_attrs) ==
            IF field_attrs.tag # "Ok" THEN field_attrs
            ELSE Ok([kind |-> "MapVisitor",
                     impl_generics |-> VisitorImplGenerics(generics),
                     where_clause |-> VisitorImplGenerics(generics).where_clause,
                     generics |-> VisitorGenerics(generics),
                     structure_ty |-> structure_ty,
                     variant_ty |-> variant_ty,
                     arms |-> MapVisitorArms(field_attrs.val, value_exprs),
                     len |-> MapVisitorLen(field_attrs.val, value_exprs)])
    IN try(GetStructFieldAttrs(fields))

RefTy(ty) == [kind |-> "ref", lifetime |-> VisitorLifetime, arity |-> 1]

TupleOfRefsTy(fields) == [kind |-> "tuple", lifetime |-> VisitorLifetime, arity |-> Len(fields)]

SerializeUnitStruct(container_attrs) ==
    Ok(CallBody("serialize_unit_struct", SerializeNameExpr(container_attrs),
                NoIndex, NoName, "none", NoVisitorDef, NoValueExpr))

SerializeNewtypeStruct(container_attrs) ==
    Ok(CallBody("serialize_newtype_struct", SerializeNameExpr(container_attrs),
                NoIndex, NoName, "&self.0", NoVisitorDef, NoValueExpr))

SerializeTupleStruct(impl_generics, ty, fields, container_attrs) ==
    Ok(CallBody("serialize_tuple_struct", SerializeNameExpr(container_attrs),
                NoIndex, NoName, "Visitor",
                SerializeTupleStructVisitor(ty, RefTy(ty), fields, impl_generics),
                SelfValueExpr))

SerializeStruct(impl_generics, ty, fields, container_attrs) ==
    LET value_exprs == [i \in 1..Len(fields) |-> SelfField(fields[i].ident)]
        try(v) ==
            IF v.tag # "Ok" THEN v
            ELSE Ok(CallBody("serialize_struct", SerializeNameExpr(container_attrs),
                             NoIndex, NoName, "Visitor", v.val, SelfValueExpr))
    IN try(SerializeStructVisitor(ty, RefTy(ty), fields, impl_generics, value_exprs))

\* Mutant: the one-field tuple is not told apart from longer tuples.
SerializeItemStructNoNewtype(impl_generics, ty, span, variant_data, container_attrs) ==
    IF variant_data.kind = "Unit" THEN SerializeUnitStruct(container_attrs)
    ELSE IF variant_data.kind = "Tuple"
    THEN IF \E i \in 1..Len(variant_data.fields) : variant_data.fields[i].named
         THEN SpanBug(span, "tuple struct has named fields")
         ELSE SerializeTupleStruct(impl_generics, ty, Len(variant_data.fields), container_attrs)
    ELSE IF \E i \in 1..Len(variant_data.fields) : ~variant_data.fields[i].named
         THEN SpanBug(span, "struct has unnamed fields")
         ELSE SerializeStruct(impl_generics, ty, variant_data.fields, container_attrs)

SerializeItemStruct(impl_generics, ty, span, variant_data, container_attrs) ==
    IF variant_data.kind = "Unit" THEN SerializeUnitStruct(container_attrs)
    ELSE IF variant_data.kind = "Tuple" /\ Len(variant_data.fields) = 1
    THEN SerializeNewtypeStruct(container_attrs)
    ELSE IF variant_data.kind = "Tuple"
    THEN IF \E i \in 1..Len(variant_data.fields) : variant_data.fields[i].named
         THEN SpanBug(span, "tuple struct has named fields")
         ELSE SerializeTupleStruct(impl_generics, ty, Len(variant_data.fields), container_attrs)
    ELSE IF \E i \in 1..Len(variant_data.fields) : ~variant_data.fields[i].named
         THEN SpanBug(span, "struct has unnamed fields")
         ELSE SerializeStruct(impl_generics, ty, variant_data.fields, container_attrs)

SerializeTupleVariant(type_name, variant_index, variant_name, generics, structure_ty, fields, field_names) ==
    CallBody("serialize_tuple_variant", type_name, variant_index, variant_name, "Visitor",
             SerializeTupleStructVisitor(structure_ty, TupleOfRefsTy(fields), Len(fields),
                                         generics),
             TupleValueExpr(field_names))

SerializeStructVariant(type_name, variant_index, variant_name, generics, structure_ty, fields, field_names) ==
    LET value_exprs == [i \in 1..Len(field_names) |-> SelfTupField(i - 1)]
        try(v) ==
            IF v.tag # "Ok" THEN v
            ELSE Ok(CallBody("serialize_struct_variant", type_name, variant_index,
                             variant_name, "Visitor", v.val, TupleValueExpr(field_names)))
    IN try(SerializeStructVisitor(structure_ty, TupleOfRefsTy(fields), fields, generics,
                                  value_exprs))

\* A pattern: T::V, T::V(ref id, ..) or T::V { name: ref id, .. }.
Pat(kind, type_ident, variant_ident, binds) ==
    [kind |-> kind, path |-> <<type_ident, variant_ident>>, binds |-> binds]

Arm(pat, body) == [pat |-> pat, body |-> body]

SerializeVariant(type_ident, generics, ty, variant, variant_index, container_attrs) ==
    LET type_name == SerializeNameExpr(container_attrs)
        variant_ident == variant.ident
        fields == variant.data.fields
        field_names == [i \in 1..Len(fields) |-> FieldName(i - 1)]
        try_expr(expr) ==
            IF expr.tag # "Ok" THEN expr
            ELSE Ok(Arm(Pat("struct", type_ident, variant_ident,
                            [i \in 1..Len(fields) |->
                                [name |-> fields[i].ident, id |-> field_names[i]]]),
                        expr.val))
        try(variant_attrs) ==
            IF variant_attrs.tag # "Ok" THEN variant_attrs
            ELSE IF variant.data.kind = "Unit"
            THEN Ok(Arm(Pat("path", type_ident, variant_ident, <<>>),
                        CallBody("serialize_unit_variant", type_name, variant_index,
                                 SerializeNameExpr(variant_attrs.val), "none", NoVisitorDef,
                                 NoValueExpr)))
            ELSE IF variant.data.kind = "Tuple" /\ Len(fields) = 1
            THEN Ok(Arm(Pat("enum", type_ident, variant_ident,
                            <<[name |-> NoName, id |-> <<"__simple_value", 0>>]>>),
                        CallBody("serialize_newtype_variant", type_name, variant_index,
                                 SerializeNameExpr(variant_attrs.val), "__simple_value",
                                 NoVisitorDef, NoValueExpr)))
            ELSE IF variant.data.kind = "Tuple"
            THEN Ok(Arm(Pat("enum", type_ident, variant_ident,
                            [i \in 1..Len(fields) |->
                                [name |-> NoName, id |-> field_names[i]]]),
                        SerializeTupleVariant(type_name, variant_index,
                                              SerializeNameExpr(variant_attrs.val),
                                              generics, ty, fields, field_names)))
            ELSE IF \E i \in 1..Len(fields) : ~fields[i].named
            THEN LET i == CHOOSE j \in 1..Len(fields) :
                             ~fields[j].named /\ \A k \in 1..(j - 1) : fields[k].named
                 IN SpanBug(fields[i].ident, "struct variant has unnamed fields")
            ELSE try_expr(SerializeStructVariant(type_name, variant_index,
                                                 SerializeNameExpr(variant_attrs.val),
                                                 generics, ty, fields, field_names))
    IN try(VariantAttrsFromVariant(variant))

\* Mutant: the variants are numbered from 1.
RECURSIVE EnumArmsOneBased(_, _, _, _, _, _, _)
EnumArmsOneBased(type_ident, impl_generics, ty, variants, container_attrs, variant_index, arms) ==
    LET try(arm) ==
            IF arm.tag # "Ok" THEN arm
            ELSE EnumArmsOneBased(type_ident, impl_generics, ty, variants, container_attrs,
                                  variant_index + 1, Append(arms, arm.val))
    IN IF variant_index >= Len(variants) THEN Ok(arms)
       ELSE try(SerializeVariant(type_ident, impl_generics, ty, variants[variant_index + 1],
                                 variant_index + 1, container_attrs))

\* The for loop of serialize_item_enum from position variant_index + 1 on,
\* with the arms pushed so far.
RECURSIVE EnumArms(_, _, _, _, _, _, _)
EnumArms(type_ident, impl_generics, ty, variants, container_attrs, variant_index, arms) ==
    LET try(arm) ==
            IF arm.tag # "Ok" THEN arm
            ELSE EnumArms(type_ident, impl_generics, ty, variants, container_attrs,
                          variant_index + 1, Append(arms, arm.val))
    IN IF variant_index >= Len(variants) THEN Ok(arms)
       ELSE try(SerializeVariant(type_ident, impl_generics, ty, variants[variant_index + 1],
                                 variant_index, container_attrs))

SerializeItemEnum(type_ident, impl_generics, ty, variants, container_attrs) ==
    LET quote(arms) ==
            IF arms.tag # "Ok" THEN arms ELSE Ok([op |-> "match", arms |-> arms.val])
    IN quote(EnumArms(type_ident, impl_generics, ty, variants, container_attrs, 0, <<>>))

SerializeBody(item, impl_generics, ty) ==
    LET try(container_attrs) ==
            IF container_attrs.tag # "Ok" THEN container_attrs
            ELSE IF item.node = "Struct"
            THEN SerializeItemStruct(impl_generics, ty, item.ident, item.data,
                                     container_attrs.val)
            ELSE IF item.node = "Enum"
            THEN SerializeItemEnum(item.ident, impl_generics, ty, item.variants,
                                   container_attrs.val)
            ELSE SpanBug(item.ident,
                         "expected ItemStruct or ItemEnum in derive Serialize")
    IN try(ContainerAttrsFromItem(item))

NotStructOrEnum ==
    SpanErr(<<"meta_item", 0>>,
            "derive Serialize may only be applied to structs and enums")

\* impl_generics of expand_derive_serialize.
ImplGenerics(generics) == AddTyParamBound(generics, SerializePath)

\* The impl item handed to push.
ImplItem(impl_generics, ty, body) ==
    [impl_generics |-> impl_generics, ty |-> ty,
     where_clause |-> impl_generics.where_clause, body |-> body]

\* The end of expand_derive_serialize: return on Err (the error has been
\* reported; a span_bug unwinds), push the impl on Ok.
PushOrReturn(impl_generics, ty, body) ==
    IF body.tag # "Ok" THEN [push |-> <<>>, diag |-> body.diag]
    ELSE [push |-> <<ImplItem(impl_generics, ty, body.val)>>, diag |-> <<>>]

\* Mutant: the error branch falls through to push.
ExpandDeriveSerializeFallsThrough(a) ==
    IF a.ann # "Item" THEN [push |-> <<>>, diag |-> <<NotStructOrEnum>>]
    ELSE IF a.node \notin {"Struct", "Enum"} THEN [push |-> <<>>, diag |-> <<NotStructOrEnum>>]
    ELSE LET F(body) ==
                 [push |-> <<ImplItem(ImplGenerics(a.generics),
                                      [ident |-> a.ident,
                                       generics |-> ImplGenerics(a.generics)],
                                      body.val)>>,
                  diag |-> body.diag]
         IN F(SerializeBody(a, ImplGenerics(a.generics),
                            [ident |-> a.ident, generics |-> ImplGenerics(a.generics)]))

\* What one expansion does to the outside: the items handed to push and
\* the diagnostics reported (a span_bug among them when it unwound).
ExpandDeriveSerialize(a) ==
    IF a.ann # "Item" THEN [push |-> <<>>, diag |-> <<NotStructOrEnum>>]
    ELSE IF a.node \notin {"Struct", "Enum"} THEN [push |-> <<>>, diag |-> <<NotStructOrEnum>>]
    ELSE LET impl_generics == ImplGenerics(a.generics)
             ty == [ident |-> a.ident, generics |-> impl_generics]
         IN PushOrReturn(impl_generics, ty, SerializeBody(a, impl_generics, ty))

(***************************************************************************)
(* Run time: the emitted code, interpreted                                 *)
(***************************************************************************)
\* Values of the serialized type.  A field value is 0 (empty / None) or a
\* non-empty value that tells the fields apart.
ValueLists(fields) ==
    {[i \in 1..Len(fields) |-> [ident |-> fields[i].ident, val |-> IF bs[i] THEN i ELSE 0]]
        : bs \in [1..Len(fields) -> BOOLEAN]}

SelfValues(item) ==
    IF item.node = "Struct"
    THEN {[variant |-> NoName, fields |-> vs] : vs \in ValueLists(item.data.fields)}
    ELSE UNION {{[variant |-> item.variants[v].ident, fields |-> vs]
                    : vs \in ValueLists(item.variants[v].data.fields)}
                : v \in 1..Len(item.variants)}

NoSelf == [variant |-> NoName, fields |-> <<>>]

IsEmpty(val) == val = 0

IsNone(val) == val = 0

\* self.value.<i> and self.value.<name> on the value a visitor holds.
EvalExpr(expr, value) ==
    IF expr.kind = "tup_field" THEN value[expr.idx + 1].val
    ELSE value[CHOOSE j \in 1..Len(value) : value[j].ident = expr.name].val

\* A recorded Serializer call.
Call(op, name, index, variant_name, key, val) ==
    [op |-> op, name |-> name, index |-> index, variant_name |-> variant_name,
     key |-> key, val |-> val]

EltCall(op, key, val) == Call(op, NoName, NoIndex, NoName, key, val)

\* What a visitor operation returned.
VisitResult(tag, err) == [op |-> "visit", tag |-> tag, err |-> err, n |-> 0]

LenResult(n) == [op |-> "len", tag |-> "Some", err |-> "", n |-> n]

NoResult == [op |-> "none", tag |-> "", err |-> "", n |-> 0]

\* Ok(Some(try!(r))): the element routine's Ok is wrapped, its Err is
\* returned as it is.
WrapElt(r) == IF r = "ok" THEN VisitResult("Some", "") ELSE VisitResult("Err", r)

NoVisitor == [def |-> NoVisitorDef, state |-> 0, value |-> <<>>]

HasArm(arms, state) == \E j \in 1..Len(arms) : arms[j].pat = state

ArmFor(arms, state) ==
    arms[CHOOSE j \in 1..Len(arms) :
            arms[j].pat = state /\ \A k \in 1..(j - 1) : arms[k].pat # state]

\* Mutant: the catch-all arm rewinds the cursor.
SeqVisitRewinds(v, r) ==
    IF HasArm(v.def.arms, v.state)
    THEN LET arm == ArmFor(v.def.arms, v.state)
         IN [visitor |-> [v EXCEPT !.state = v.state + 1],
             calls |-> <<EltCall("serialize_tuple_struct_elt", NoName,
                                 EvalExpr(arm.expr, v.value))>>,
             result |-> WrapElt(r), matched |-> <<v.state>>]
    ELSE [visitor |-> [v EXCEPT !.state = 0], calls |-> <<>>,
          result |-> VisitResult("None", ""), matched |-> <<v.state>>]

\* SeqVisitor::visit of the emitted visitor; r is what the Serializer
\* answers to the element call if one is made.
SeqVisit(v, r) ==
    IF HasArm(v.def.arms, v.state)
    THEN LET arm == ArmFor(v.def.arms, v.state)
         IN [visitor |-> [v EXCEPT !.state = v.state + 1],
             calls |-> <<EltCall("serialize_tuple_struct_elt", NoName,
                                 EvalExpr(arm.expr, v.value))>>,
             result |-> WrapElt(r), matched |-> <<v.state>>]
    ELSE [visitor |-> v, calls |-> <<>>, result |-> VisitResult("None", ""),
          matched |-> <<v.state>>]

\* Mutant: the cursor advances only once the element call has succeeded.
RECURSIVE MapVisitAdvancesLate(_, _)
MapVisitAdvancesLate(v, r) ==
    IF HasArm(v.def.arms, v.state)
    THEN LET arm == ArmFor(v.def.arms, v.state)
             next == [v EXCEPT !.state = v.state + 1]
             val == EvalExpr(arm.expr, v.value)
             continue(out) == [out EXCEPT !.matched = <<v.state>> \o out.matched]
         IN IF arm.stmt = "is_empty" /\ IsEmpty(val) THEN continue(MapVisitAdvancesLate(next, r))
            ELSE IF arm.stmt = "is_none" /\ IsNone(val) THEN continue(MapVisitAdvancesLate(next, r))
            ELSE [visitor |-> IF r = "ok" THEN next ELSE v,
                  calls |-> <<EltCall("serialize_struct_elt", arm.key, val)>>,
                  result |-> WrapElt(r), matched |-> <<v.state>>]
    ELSE [visitor |-> v, calls |-> <<>>, result |-> VisitResult("None", ""),
          matched |-> <<v.state>>]

\* Mutant: a conditional skip that fires advances the cursor by two.
RECURSIVE MapVisitSkipsTwo(_, _)
MapVisitSkipsTwo(v, r) ==
    IF HasArm(v.def.arms, v.state)
    THEN LET arm == ArmFor(v.def.arms, v.state)
             next == [v EXCEPT !.state = v.state + 1]
             skipped == [v EXCEPT !.state = v.state + 2]
             val == EvalExpr(arm.expr, v.value)
             continue(out) == [out EXCEPT !.matched = <<v.state>> \o out.matched]
         IN IF arm.stmt = "is_empty" /\ IsEmpty(val) THEN continue(MapVisitSkipsTwo(skipped, r))
            ELSE IF arm.stmt = "is_none" /\ IsNone(val) THEN continue(MapVisitSkipsTwo(skipped, r))
            ELSE [visitor |-> next,
                  calls |-> <<EltCall("serialize_struct_elt", arm.key, val)>>,
                  result |-> WrapElt(r), matched |-> <<v.state>>]
    ELSE [visitor |-> v, calls |-> <<>>, result |-> VisitResult("None", ""),
          matched |-> <<v.state>>]

\* MapVisitor::visit of the emitted visitor: the loop around the match;
\* matched lists the values of self.state the match was evaluated on, one
\* for each iteration of the loop.
RECURSIVE MapVisit(_, _)
MapVisit(v, r) ==
    IF HasArm(v.def.arms, v.state)
    THEN LET arm == ArmFor(v.def.arms, v.state)
             next == [v EXCEPT !.state = v.state + 1]
             val == EvalExpr(arm.expr, v.value)
             continue(out) == [out EXCEPT !.matched = <<v.state>> \o out.matched]
         IN IF arm.stmt = "is_empty" /\ IsEmpty(val) THEN continue(MapVisit(next, r))
            ELSE IF arm.stmt = "is_none" /\ IsNone(val) THEN continue(MapVisit(next, r))
            ELSE [visitor |-> next,
                  calls |-> <<EltCall("serialize_struct_elt", arm.key, val)>>,
                  result |-> WrapElt(r), matched |-> <<v.state>>]
    ELSE [visitor |-> v, calls |-> <<>>, result |-> VisitResult("None", ""),
          matched |-> <<v.state>>]

\* The value of one summand of len().
LenTermValue(t, value) ==
    IF t.kind = "lit" THEN t.n
    ELSE IF t.kind = "is_empty" THEN (IF IsEmpty(EvalExpr(t.expr, value)) THEN 0 ELSE 1)
    ELSE (IF IsNone(EvalExpr(t.expr, value)) THEN 0 ELSE 1)

RECURSIVE SumLen(_, _, _)
SumLen(terms, value, i) ==
    IF i > Len(terms) THEN 0
    ELSE LenTermValue(terms[i], value) + SumLen(terms, value, i + 1)

\* len() of either emitted visitor.
VisitorLenOf(v) == SumLen(v.def.len, v.value, 1)

\* The arm of match *self that the value selects.
ArmOfSelf(arms, sv) ==
    arms[CHOOSE j \in 1..Len(arms) :
            arms[j].pat.path[2] = sv.variant
            /\ \A k \in 1..(j - 1) : arms[k].pat.path[2] # sv.variant]

\* The value a pattern binds to identifier id.
Bound(pat, id, sv) ==
    LET j == CHOOSE k \in 1..Len(pat.binds) : pat.binds[k].id = id
    IN IF pat.kind = "struct"
       THEN sv.fields[CHOOSE k \in 1..Len(sv.fields) :
                         sv.fields[k].ident = pat.binds[j].name].val
       ELSE sv.fields[j].val

\* The body of serialize that runs for sv, and the pattern it runs under.
BodyOfSelf(impl, sv) ==
    IF impl.body.op = "match" THEN ArmOfSelf(impl.body.arms, sv).body ELSE impl.body

PatOfSelf(impl, sv) ==
    IF impl.body.op = "match" THEN ArmOfSelf(impl.body.arms, sv).pat
    ELSE Pat("path", NoName, NoName, <<>>)

\* The top-level Serializer call a body makes.
TopCall(body, pat, sv) ==
    Call(body.op, body.type_name, body.variant_index, body.variant_name, NoName,
         IF body.arg = "&self.0" THEN sv.fields[1].val
         ELSE IF body.arg = "__simple_value" THEN Bound(pat, <<"__simple_value", 0>>, sv)
         ELSE NoIndex)

\* Visitor { value: .., state: .., .. } as the body builds it.
NewVisitor(body, pat, sv) ==
    IF body.arg # "Visitor" THEN NoVisitor
    ELSE [def |-> body.visitor,
          state |-> body.state,
          value |-> IF body.value.kind = "self" THEN sv.fields
                    ELSE [j \in 1..Len(body.value.ids) |->
                             [ident |-> NoName, val |-> Bound(pat, body.value.ids[j], sv)]]]

\* serialize returns the value of its tail expression, the Serializer call.
BodyResult(r) == r

(***************************************************************************)
(* State machine                                                            *)
(***************************************************************************)
ItemInit(items) ==
    /\ annotatable \in items
    /\ pc = "derive"
    /\ pushed = <<>>
    /\ diags = <<>>
    /\ selfv = NoSelf
    /\ visitor = NoVisitor
    /\ calls = <<>>
    /\ eltret = "none"
    /\ last = NoResult
    /\ ended = FALSE
    /\ matched = <<>>
    /\ opret = "none"
    /\ ret = "none"

Init == ItemInit(Items)

\* The compiler runs the derive expander on the annotated item.
Expand ==
    /\ pc = "derive"
    /\ \E out \in {ExpandDeriveSerialize(annotatable)} :
          /\ pushed' = out.push
          /\ diags' = out.diag
          /\ pc' = IF out.push = <<>> THEN "aborted" ELSE "compiled"
    /\ UNCHANGED <<annotatable, selfv, visitor, calls, eltret, last, ended, matched, opret, ret>>

\* serialize(&self, serializer) is called on a value: the body makes its
\* top-level Serializer call, handing over a fresh visitor where it has one.
Serialize ==
    /\ pc = "compiled"
    /\ \E sv \in SelfValues(annotatable) :
          LET body == BodyOfSelf(pushed[1], sv)
              pat == PatOfSelf(pushed[1], sv)
          IN /\ selfv' = sv
             /\ calls' = <<TopCall(body, pat, sv)>>
             /\ visitor' = NewVisitor(body, pat, sv)
    /\ pc' = "in_serializer"
    /\ UNCHANGED <<annotatable, pushed, diags, eltret, last, ended, matched, opret, ret>>

\* The Serializer calls visit on the visitor it was handed.
Visit ==
    /\ pc = "in_serializer"
    /\ visitor.def.kind # "none"
    /\ \E r \in Results :
          LET out == IF visitor.def.kind = "SeqVisitor" THEN SeqVisit(visitor, r)
                     ELSE MapVisit(visitor, r)
          IN /\ visitor' = out.visitor
             /\ calls' = calls \o out.calls
             /\ eltret' = IF out.calls = <<>> THEN eltret ELSE r
             /\ last' = out.result
             /\ ended' = (ended \/ out.result.tag = "None")
             /\ matched' = out.matched
             /\ pc' = IF out.result.tag = "Err" THEN "visit_failed" ELSE "in_serializer"
    /\ UNCHANGED <<annotatable, pushed, diags, selfv, opret, ret>>

\* The Serializer calls len on the visitor.
VisitorLen ==
    /\ pc = "in_serializer"
    /\ visitor.def.kind # "none"
    /\ last' = LenResult(VisitorLenOf(visitor))
    /\ UNCHANGED <<annotatable, pc, pushed, diags, selfv, visitor, calls, eltret, ended, matched, opret, ret>>

\* The top-level Serializer operation returns, and serialize with it; the
\* visitor, moved into the call, is dropped.
SerializerReturn ==
    /\ pc \in {"in_serializer", "visit_failed"}
    /\ \E r \in Results :
          /\ opret' = r
          /\ ret' = BodyResult(r)
    /\ pc' = "returned"
    /\ visitor' = NoVisitor
    /\ last' = NoResult
    /\ ended' = FALSE
    /\ matched' = <<>>
    /\ UNCHANGED <<annotatable, pushed, diags, selfv, calls, eltret>>

Next == Expand \/ Serialize \/ Visit \/ VisitorLen \/ SerializerReturn

Spec == Init /\ [][Next]_vars

\* The same machine over the items explored for the generic signatures.
GenInit == ItemInit(GenItems)

GenSpec == GenInit /\ [][Next]_vars

(***************************************************************************)
(* What the type description and the serialized value predict              *)
(***************************************************************************)
\* The declared body the serialized value belongs to.
ActiveData ==
    IF annotatable.node = "Struct" THEN annotatable.data
    ELSE annotatable.variants[CHOOSE i \in 1..Len(annotatable.variants) :
                                 annotatable.variants[i].ident = selfv.variant].data

DeclFields == ActiveData.fields

\* 0-based declaration position of the active variant.
ActiveIndex ==
    (CHOOSE i \in 1..Len(annotatable.variants) :
        annotatable.variants[i].ident = selfv.variant) - 1

Running == pc \in {"in_serializer", "visit_failed"}

MapRunning == Running /\ visitor.def.kind = "MapVisitor"

SeqRunning == Running /\ visitor.def.kind = "SeqVisitor"

\* The element calls made so far: everything after the top-level call.
EltCalls == Tail(calls)

IsPrefix(s, t) == Len(s) <= Len(t) /\ \A i \in 1..Len(s) : s[i] = t[i]

Positions(n) == [i \in 1..n |-> i]

\* Declaration positions of the fields that are not skip.
NonSkip == SelectSeq(Positions(Len(DeclFields)), LAMBDA i : DeclFields[i].skip # "skip")

\* The conditional skip predicate of field i is true of its value.
SkipFires(i) ==
    \/ DeclFields[i].skip = "if_empty" /\ selfv.fields[i].val = 0
    \/ DeclFields[i].skip = "if_none" /\ selfv.fields[i].val = 0

\* Declaration positions of the fields presented to the Serializer.
Presented == SelectSeq(NonSkip, LAMBDA i : ~SkipFires(i))

ExpectedMapCalls ==
    [j \in 1..Len(Presented) |->
        EltCall("serialize_struct_elt", WireName(DeclFields[Presented[j]]),
                selfv.fields[Presented[j]].val)]

ExpectedSeqCalls ==
    [j \in 1..Len(DeclFields) |->
        EltCall("serialize_tuple_struct_elt", NoName, selfv.fields[j].val)]

(***************************************************************************)
(* C1: driving the map visitor of a record product or record variant from  *)
(* state 0 until it returns absent makes exactly one serialize_struct_elt  *)
(* call, with the key and the value of that field, for each field that is  *)
(* not skip and whose conditional skip predicate is false, in declaration  *)
(* order; the match arms are numbered 0, 1, .. over the non-skip fields.   *)
(***************************************************************************)
C1_MapDriveEmitsPresentedFields ==
    MapRunning =>
        /\ IsPrefix(EltCalls, ExpectedMapCalls)
        /\ (ended => EltCalls = ExpectedMapCalls)
        /\ Len(visitor.def.arms) = Len(NonSkip)
        /\ \A j \in 1..Len(NonSkip) :
              /\ visitor.def.arms[j].pat = j - 1
              /\ visitor.def.arms[j].key = WireName(DeclFields[NonSkip[j]])
              /\ EvalExpr(visitor.def.arms[j].expr, visitor.value)
                    = selfv.fields[NonSkip[j]].val

\* A full drive over a record with a skip field, a conditional skip that
\* fired and at least one field presented after them.
C1_Witness ==
    /\ MapRunning
    /\ ended
    /\ Len(EltCalls) >= 1
    /\ \E i, j, k \in 1..Len(DeclFields) :
          /\ i < k /\ j < k
          /\ DeclFields[i].skip = "skip"
          /\ SkipFires(j)
          /\ DeclFields[k].skip = "none"

(***************************************************************************)
(* C2: in every state of the map visitor, len() is the number of fields a  *)
(* full drive presents: the non-skip fields whose conditional skip         *)
(* predicate is false.                                                     *)
(***************************************************************************)
C2_LenIsPresentedCount ==
    MapRunning =>
        /\ VisitorLenOf(visitor) = Len(Presented)
        /\ (last.op = "len" => last.n = Len(Presented))
        /\ (ended => VisitorLenOf(visitor) = Len(EltCalls))

\* len() was called in the middle of a drive over a record with a skip
\* field and a conditional skip that fired.
C2_Witness ==
    /\ MapRunning
    /\ last.op = "len"
    /\ visitor.state >= 1
    /\ ~ended
    /\ \E i, j \in 1..Len(DeclFields) : DeclFields[i].skip = "skip" /\ SkipFires(j)

\* A step in which the Serializer called visit.
IsVisit == pc = "in_serializer" /\ pc' # "returned" /\ last'.op = "visit"

EltOp == IF visitor.def.kind = "SeqVisitor" THEN "serialize_tuple_struct_elt"
         ELSE "serialize_struct_elt"

(***************************************************************************)
(* C3: the sequence visitor of a tuple product or tuple variant with n     *)
(* fields starts at state 0; a visit in state i < n increments state and   *)
(* calls serialize_tuple_struct_elt on field i, a visit in state >= n      *)
(* returns absent without a call; a full drive emits fields 0 .. n-1 in    *)
(* order and len() is n in every state.                                    *)
(***************************************************************************)
C3_SeqVisitorSteps ==
    /\ [](SeqRunning =>
            /\ VisitorLenOf(visitor) = Len(DeclFields)
            /\ (last.op = "len" => last.n = Len(DeclFields))
            /\ (ended => EltCalls = ExpectedSeqCalls))
    /\ [][/\ (pc = "compiled" /\ pc' = "in_serializer" => visitor'.state = 0)
          /\ (IsVisit /\ visitor.def.kind = "SeqVisitor" =>
                IF visitor.state < Len(DeclFields)
                THEN /\ visitor'.state = visitor.state + 1
                     /\ calls' = Append(calls,
                                        EltCall("serialize_tuple_struct_elt", NoName,
                                                selfv.fields[visitor.state + 1].val))
                     /\ last'.tag \in {"Some", "Err"}
                     /\ (eltret' = "ok" => last'.tag = "Some")
                ELSE /\ last'.tag = "None"
                     /\ calls' = calls
                     /\ visitor' = visitor)]_vars

\* A full drive over a tuple of at least two fields.
C3_Witness ==
    /\ SeqRunning
    /\ ended
    /\ Len(DeclFields) >= 2
    /\ Len(EltCalls) = Len(DeclFields)

(***************************************************************************)
(* C8: once a visitor has returned absent, every later visit returns       *)
(* absent, makes no Serializer call and leaves the visitor unchanged; no   *)
(* visitor operation decreases state.                                      *)
(***************************************************************************)
C8_AbsentIsFinal ==
    [][/\ (ended /\ IsVisit =>
             /\ last'.tag = "None"
             /\ calls' = calls
             /\ visitor' = visitor
             /\ ended')
       /\ (Running /\ pc' # "returned" => visitor'.state >= visitor.state)]_vars

\* A visitor over at least two elements that has returned absent and can
\* be visited again.
C8_Witness ==
    /\ pc = "in_serializer"
    /\ ended
    /\ visitor.state >= 2
    /\ last.op = "len"

(***************************************************************************)
(* C10: when the element call made by visit in state i returns an error,   *)
(* visit returns that error, makes no further call, and leaves state at    *)
(* i + 1; serialize returns what the top-level Serializer operation        *)
(* returned.                                                               *)
(***************************************************************************)
C10_ErrorsPropagate ==
    /\ [](pc = "returned" => ret = opret)
    /\ [][(IsVisit /\ calls' # calls /\ eltret' \in Errors) =>
            /\ pc' = "visit_failed"
            /\ last'.tag = "Err"
            /\ last'.err = eltret'
            /\ Len(calls') = Len(calls) + 1
            /\ visitor'.state >= 1
            /\ (visitor.def.kind = "SeqVisitor" => visitor'.state = visitor.state + 1)
            /\ HasArm(visitor.def.arms, visitor'.state - 1)
            /\ LET arm == ArmFor(visitor.def.arms, visitor'.state - 1)
               IN calls'[Len(calls')]
                     = EltCall(EltOp, arm.key, EvalExpr(arm.expr, visitor.value))]_vars

\* A visit failed on the second or a later element.
C10_Witness ==
    /\ pc = "visit_failed"
    /\ eltret \in Errors
    /\ last.err = eltret
    /\ visitor.state >= 2

(***************************************************************************)
(* C11: every call to the map visitor's visit terminates.  With k the      *)
(* number of non-skip fields and s the state at entry, the loop runs at    *)
(* most k - s + 1 iterations, each iteration that does not return          *)
(* increases state by exactly 1, the call makes at most one                *)
(* serialize_struct_elt call, and 0 <= state <= k in every reachable       *)
(* visitor state.                                                          *)
(***************************************************************************)
C11_MapVisitTerminates ==
    /\ [](MapRunning => visitor.state >= 0 /\ visitor.state <= Len(NonSkip))
    /\ [][(IsVisit /\ visitor.def.kind = "MapVisitor") =>
            LET k == Len(NonSkip)
                s == visitor.state
                n == Len(matched')
            IN /\ n >= 1
               /\ n <= k - s + 1
               /\ matched'[1] = s
               /\ \A j \in 1..(n - 1) : matched'[j + 1] = matched'[j] + 1
               /\ visitor'.state \in {matched'[n], matched'[n] + 1}
               /\ Len(calls') <= Len(calls) + 1
               /\ IsPrefix(calls, calls')
               /\ \A j \in (Len(calls) + 1)..Len(calls') :
                     calls'[j].op = "serialize_struct_elt"]_vars

\* A visit from state 0 over a record of at least two non-skip fields whose
\* conditional skips all fired: the loop ran k + 1 times and returned absent.
C11_Witness ==
    /\ MapRunning
    /\ last.op = "visit"
    /\ last.tag = "None"
    /\ Len(NonSkip) >= 2
    /\ Len(matched) = Len(NonSkip) + 1
    /\ matched[1] = 0

(***************************************************************************)
(* Generation-time predictions, from the type description alone            *)
(***************************************************************************)
IsAggregate(a) == a.ann = "Item" /\ a.node \in {"Struct", "Enum"}

HasNamed(vd) == \E i \in 1..Len(vd.fields) : vd.fields[i].named

HasUnnamed(vd) == \E i \in 1..Len(vd.fields) : ~vd.fields[i].named

IllFormed(vd) ==
    \/ vd.kind = "Tuple" /\ HasNamed(vd)
    \/ vd.kind = "Struct" /\ HasUnnamed(vd)

IllFormedItem(a) ==
    /\ IsAggregate(a)
    /\ IF a.node = "Struct" THEN IllFormed(a.data)
       ELSE \E i \in 1..Len(a.variants) : IllFormed(a.variants[i].data)

\* Field attributes are read for record bodies only.
BadFieldAttr(vd) ==
    vd.kind = "Struct" /\ \E i \in 1..Len(vd.fields) : vd.fields[i].bad_attr

\* The item carries an error the generator reports.
HasError(a) ==
    \/ ~IsAggregate(a)
    \/ a.bad_attr
    \/ a.node = "Struct" /\ BadFieldAttr(a.data)
    \/ a.node = "Enum" /\ \E i \in 1..Len(a.variants) :
                              a.variants[i].bad_attr \/ BadFieldAttr(a.variants[i].data)

\* The item trips an internal check (span_bug) of the generator.
TripsCheck(a) ==
    /\ IsAggregate(a)
    /\ IF a.node = "Struct"
       THEN \/ a.data.kind = "Tuple" /\ Len(a.data.fields) # 1 /\ HasNamed(a.data)
            \/ a.data.kind = "Struct" /\ HasUnnamed(a.data)
       ELSE \E i \in 1..Len(a.variants) :
               a.variants[i].data.kind = "Struct" /\ HasUnnamed(a.variants[i].data)

VariantFails(v) ==
    v.bad_attr \/ BadFieldAttr(v.data) \/ (v.data.kind = "Struct" /\ HasUnnamed(v.data))

\* What the first failing variant makes the generator report.
VariantDiag(v) ==
    IF v.bad_attr THEN SpanErr(v.ident, "variant attribute")
    ELSE IF HasUnnamed(v.data)
    THEN [kind |-> "bug",
          span |-> v.data.fields[CHOOSE j \in 1..Len(v.data.fields) :
                                    ~v.data.fields[j].named
                                    /\ \A k \in 1..(j - 1) : v.data.fields[k].named].ident,
          msg |-> "struct variant has unnamed fields"]
    ELSE SpanErr(v.data.fields[CHOOSE j \in 1..Len(v.data.fields) :
                                  v.data.fields[j].bad_attr
                                  /\ \A k \in 1..(j - 1) : ~v.data.fields[k].bad_attr].ident,
                 "field attribute")

VariantOp(vd) ==
    IF vd.kind = "Unit" THEN "serialize_unit_variant"
    ELSE IF vd.kind = "Tuple" /\ Len(vd.fields) = 1 THEN "serialize_newtype_variant"
    ELSE IF vd.kind = "Tuple" THEN "serialize_tuple_variant"
    ELSE "serialize_struct_variant"

ActiveVariant == annotatable.variants[ActiveIndex + 1]

Called == Running \/ pc = "returned"

(***************************************************************************)
(* C4: the match emitted for a sum of k variants has one arm per variant   *)
(* in declaration order; the arm at position i passes index i, the         *)
(* container wire name and the variant wire name to the operation chosen   *)
(* by the variant's shape: unit, newtype on the bound field, tuple with a  *)
(* sequence visitor at state 0, record with a map visitor at state 0, the  *)
(* visitors holding the tuple of borrowed fields.                          *)
(***************************************************************************)
C4_VariantArms ==
    (IsAggregate(annotatable) /\ annotatable.node = "Enum" /\ pushed # <<>>) =>
        LET arms == pushed[1].body.arms
            vs == annotatable.variants
        IN /\ pushed[1].body.op = "match"
           /\ Len(arms) = Len(vs)
           /\ \A i \in 1..Len(vs) :
                 LET b == arms[i].body
                     vd == vs[i].data
                     ids == [j \in 1..Len(vd.fields) |-> FieldName(j - 1)]
                 IN /\ arms[i].pat.path = <<annotatable.ident, vs[i].ident>>
                    /\ b.op = VariantOp(vd)
                    /\ b.variant_index = i - 1
                    /\ b.type_name = WireName(annotatable)
                    /\ b.variant_name = WireName(vs[i])
                    /\ (b.op = "serialize_unit_variant" => b.arg = "none")
                    /\ (b.op = "serialize_newtype_variant" =>
                          /\ b.arg = "__simple_value"
                          /\ Len(arms[i].pat.binds) = 1
                          /\ arms[i].pat.binds[1].id = <<"__simple_value", 0>>)
                    /\ (b.op = "serialize_tuple_variant" =>
                          /\ b.arg = "Visitor"
                          /\ b.visitor.kind = "SeqVisitor"
                          /\ b.state = 0
                          /\ b.value = TupleValueExpr(ids))
                    /\ (b.op = "serialize_struct_variant" =>
                          /\ b.arg = "Visitor"
                          /\ b.visitor.kind = "MapVisitor"
                          /\ b.state = 0
                          /\ b.value = TupleValueExpr(ids))
           /\ (Called =>
                 calls[1] = Call(VariantOp(ActiveData), WireName(annotatable), ActiveIndex,
                                 WireName(ActiveVariant), NoName,
                                 IF VariantOp(ActiveData) = "serialize_newtype_variant"
                                 THEN selfv.fields[1].val ELSE NoIndex))
           /\ (Running /\ visitor.def.kind # "none" =>
                 /\ Len(visitor.value) = Len(selfv.fields)
                 /\ \A j \in 1..Len(selfv.fields) : visitor.value[j].val = selfv.fields[j].val)

\* The second variant of an enum whose first variant has another shape is
\* being serialized through a visitor.
C4_Witness ==
    /\ IsAggregate(annotatable) /\ annotatable.node = "Enum"
    /\ Running
    /\ ActiveIndex = 1
    /\ visitor.def.kind = "MapVisitor"
    /\ VariantOp(annotatable.variants[1].data) = "serialize_newtype_variant"

(***************************************************************************)
(* C5: the body emitted for a product makes exactly one top-level          *)
(* Serializer call with the container's wire name, chosen by shape: unit,  *)
(* newtype with &self.0, tuple of two or more fields with a sequence       *)
(* visitor over self at state 0, record with a map visitor over self at    *)
(* state 0; a record of n fields without skips has len() n and a full      *)
(* drive makes n serialize_struct_elt calls in declaration order.          *)
(***************************************************************************)
C5_ProductDispatch ==
    (IsAggregate(annotatable) /\ annotatable.node = "Struct" /\ pushed # <<>>) =>
        LET b == pushed[1].body
            vd == annotatable.data
            n == Len(vd.fields)
        IN /\ b.type_name = WireName(annotatable)
           /\ (vd.kind = "Unit" => b.op = "serialize_unit_struct" /\ b.arg = "none")
           /\ (vd.kind = "Tuple" /\ n = 1 =>
                 b.op = "serialize_newtype_struct" /\ b.arg = "&self.0")
           /\ (vd.kind = "Tuple" /\ n >= 2 =>
                 /\ b.op = "serialize_tuple_struct"
                 /\ b.arg = "Visitor"
                 /\ b.visitor.kind = "SeqVisitor"
                 /\ b.state = 0
                 /\ b.value = SelfValueExpr)
           /\ (vd.kind = "Struct" =>
                 /\ b.op = "serialize_struct"
                 /\ b.arg = "Visitor"
                 /\ b.visitor.kind = "MapVisitor"
                 /\ b.state = 0
                 /\ b.value = SelfValueExpr)
           /\ (Called =>
                 /\ calls[1] = Call(b.op, WireName(annotatable), NoIndex, NoName, NoName,
                                    IF vd.kind = "Tuple" /\ n = 1
                                    THEN selfv.fields[1].val ELSE NoIndex)
                 /\ \A j \in 2..Len(calls) :
                       calls[j].op \in {"serialize_tuple_struct_elt", "serialize_struct_elt"}
                 /\ (b.arg # "Visitor" => Len(calls) = 1))
           /\ (MapRunning /\ (\A i \in 1..n : vd.fields[i].skip = "none") =>
                 /\ VisitorLenOf(visitor) = n
                 /\ (ended =>
                       EltCalls = [i \in 1..n |->
                                      EltCall("serialize_struct_elt", WireName(vd.fields[i]),
                                              selfv.fields[i].val)]))

\* A record of at least two fields without skips, fully driven.
C5_Witness ==
    /\ IsAggregate(annotatable) /\ annotatable.node = "Struct"
    /\ MapRunning
    /\ ended
    /\ Len(DeclFields) >= 2
    /\ \A i \in 1..Len(DeclFields) : DeclFields[i].skip = "none"
    /\ Len(EltCalls) = Len(DeclFields)

(***************************************************************************)
(* C6: one expansion invokes push exactly once, with the complete impl,    *)
(* when generation succeeds, and never when an error occurs (not a struct  *)
(* or enum; container, variant or field attribute error, also in a later   *)
(* variant); only the first failing variant is reported.                   *)
(***************************************************************************)
C6_PushOnceOrNever ==
    pc # "derive" =>
        /\ Len(pushed) <= 1
        /\ Len(diags) <= 1
        /\ (Len(pushed) = 1 <=> diags = <<>>)
        /\ (HasError(annotatable) => pushed = <<>> /\ Len(diags) = 1)
        /\ (~HasError(annotatable) /\ ~TripsCheck(annotatable) =>
              /\ Len(pushed) = 1
              /\ (annotatable.node = "Enum" =>
                    Len(pushed[1].body.arms) = Len(annotatable.variants)))
        /\ (/\ IsAggregate(annotatable) /\ annotatable.node = "Enum"
            /\ ~annotatable.bad_attr
            /\ \E i \in 1..Len(annotatable.variants) : VariantFails(annotatable.variants[i])
            => LET first == CHOOSE i \in 1..Len(annotatable.variants) :
                               /\ VariantFails(annotatable.variants[i])
                               /\ \A k \in 1..(i - 1) : ~VariantFails(annotatable.variants[k])
               IN diags = <<VariantDiag(annotatable.variants[first])>>)

\* An enum whose first variant is fine and whose second variant carries an
\* attribute error has been expanded.
C6_Witness ==
    /\ pc = "aborted"
    /\ IsAggregate(annotatable) /\ annotatable.node = "Enum"
    /\ Len(annotatable.variants) >= 2
    /\ ~VariantFails(annotatable.variants[1])
    /\ annotatable.variants[2].bad_attr
    /\ pushed = <<>>
    /\ Len(diags) = 1

(***************************************************************************)
(* C7: every ill-formed input (a positional product or variant of any      *)
(* field count with a named field, a named product or variant with an      *)
(* unnamed field) makes the generator fail with a location-tagged internal *)
(* error instead of emitting a body.  Stated for inputs without attribute  *)
(* errors, which would be reported first.                                  *)
(***************************************************************************)
C7_IllFormedIsRejected ==
    (pc # "derive" /\ IllFormedItem(annotatable) /\ ~HasError(annotatable)) =>
        /\ pushed = <<>>
        /\ \E i \in 1..Len(diags) : diags[i].kind = "bug" /\ diags[i].span # NoName

(***************************************************************************)
(* C9: the impl's generics are the declaring type's generics with the      *)
(* Serialize bound added to every type parameter, lifetimes, other bounds  *)
(* and where-clause unchanged; the visitor's generics are those plus one   *)
(* fresh lifetime, declared and added as a bound on every type parameter;  *)
(* the visitor's use-site generics are the same parameters without bounds. *)
(***************************************************************************)
VisitorDefs ==
    IF pushed[1].body.op = "match"
    THEN {pushed[1].body.arms[i].body.visitor : i \in 1..Len(pushed[1].body.arms)}
         \ {NoVisitorDef}
    ELSE {pushed[1].body.visitor} \ {NoVisitorDef}

C9_GenericsPreserved ==
    pushed # <<>> =>
        LET g == annotatable.generics
            ig == pushed[1].impl_generics
        IN /\ ig.lifetimes = g.lifetimes
           /\ ig.where_clause = g.where_clause
           /\ pushed[1].where_clause = g.where_clause
           /\ pushed[1].ty.generics = ig
           /\ Len(ig.ty_params) = Len(g.ty_params)
           /\ \A i \in 1..Len(g.ty_params) :
                 /\ ig.ty_params[i].ident = g.ty_params[i].ident
                 /\ ig.ty_params[i].bounds = Append(g.ty_params[i].bounds, SerializePath)
           /\ \A d \in VisitorDefs :
                 /\ d.impl_generics.lifetimes = Append(ig.lifetimes, VisitorLifetime)
                 /\ d.impl_generics.where_clause = ig.where_clause
                 /\ d.where_clause = ig.where_clause
                 /\ Len(d.impl_generics.ty_params) = Len(ig.ty_params)
                 /\ d.generics.lifetimes = d.impl_generics.lifetimes
                 /\ Len(d.generics.ty_params) = Len(ig.ty_params)
                 /\ \A i \in 1..Len(ig.ty_params) :
                       /\ d.impl_generics.ty_params[i].ident = ig.ty_params[i].ident
                       /\ d.impl_generics.ty_params[i].bounds
                             = Append(ig.ty_params[i].bounds, VisitorLifetime)
                       /\ d.generics.ty_params[i].ident = ig.ty_params[i].ident
                       /\ d.generics.ty_params[i].bounds = <<>>

\* An impl with a visitor was emitted for a type with a lifetime, a
\* bounded type parameter and a where-clause.
C9_Witness ==
    /\ pushed # <<>>
    /\ VisitorDefs # {}
    /\ annotatable.generics.lifetimes # <<>>
    /\ annotatable.generics.where_clause # <<>>
    /\ \E i \in 1..Len(annotatable.generics.ty_params) :
          annotatable.generics.ty_params[i].bounds # <<>>

====
